---- MODULE Spec2Model ----
(***************************************************************************)
(* State-machine model of the combat and character-state engine of         *)
(* DungeonsAndDragons.py: Character, Combatant, CombatEncounter, Game,     *)
(* the spell lookup and the dice expression evaluator.                     *)
(*                                                                         *)
(* Python objects live in `heap` (one record per Character object); the    *)
(* Game's character map and the encounter's combatants hold references     *)
(* into it, as the code holds object references.  Strings whose case or    *)
(* characters the code inspects are sequences of one-character strings.    *)
(***************************************************************************)
EXTENDS Integers, Sequences, FiniteSets, TLC

VARIABLES
    heap,           \* Character objects: reference -> fields
    characters,     \* Game.characters: char_id -> reference
    combatants,     \* CombatEncounter.combatants: sequence of Combatant
    round,          \* CombatEncounter.round
    turn_index,     \* CombatEncounter.turn_index
    SPELL_LIBRARY,  \* module global: key -> Spell
    SPELL_INDEX,    \* module global: key -> api index
    party,          \* Game.party: sequence of char_id
    saved,          \* the snapshot file Game.save wrote, if any
    started,        \* history: start() has been called on the encounter
    lap,            \* history: next_turn calls made in a row since start()
    call,           \* history: the operation that made the last step
    ret             \* the value returned (or error raised) by that operation

vars == <<heap, characters, combatants, round, turn_index,
          SPELL_LIBRARY, SPELL_INDEX, party, saved, started, lap, call, ret>>

encounter_vars == <<combatants, round, turn_index>>
library_vars == <<SPELL_LIBRARY, SPELL_INDEX>>
game_vars == <<characters, party, saved>>

----------------------------------------------------------------------------
(* Python values *)

None == <<>>
Some(v) == <<v>>

Min(a, b) == IF a <= b THEN a ELSE b
Max(a, b) == IF a >= b THEN a ELSE b

\* math.ceil(n / 2) for an integer n
CeilHalf(n) == (n + 1) \div 2

\* dict.get(key, default)
Get(d, k, default) == IF k \in DOMAIN d THEN d[k] ELSE default

\* the dict d with d[k] = v set
Put(d, k, v) == [x \in (DOMAIN d) \cup {k} |-> IF x = k THEN v ELSE d[x]]

\* the dict d without the keys in ks
Drop(d, ks) == [x \in (DOMAIN d) \ ks |-> d[x]]

EmptyDict == [x \in {} |-> 0]

----------------------------------------------------------------------------
(* Strings, as sequences of characters *)

Lowercase ==
    <<"a","b","c","d","e","f","g","h","i","j","k","l","m",
      "n","o","p","q","r","s","t","u","v","w","x","y","z">>
Uppercase ==
    <<"A","B","C","D","E","F","G","H","I","J","K","L","M",
      "N","O","P","Q","R","S","T","U","V","W","X","Y","Z">>
Digits == {"0","1","2","3","4","5","6","7","8","9"}

Range(s) == {s[i] : i \in DOMAIN s}
IndexIn(s, c) == CHOOSE i \in DOMAIN s : s[i] = c

LowerCh(c) == IF c \in Range(Uppercase) THEN Lowercase[IndexIn(Uppercase, c)] ELSE c
UpperCh(c) == IF c \in Range(Lowercase) THEN Uppercase[IndexIn(Lowercase, c)] ELSE c

\* str.lower(), str.upper()
Lower(s) == [i \in DOMAIN s |-> LowerCh(s[i])]
Upper(s) == [i \in DOMAIN s |-> UpperCh(s[i])]

\* str.replace(c, "") for a single character c
RECURSIVE Remove(_, _)
Remove(s, c) ==
    IF s = <<>> THEN <<>>
    ELSE IF Head(s) = c THEN Remove(Tail(s), c)
    ELSE <<Head(s)>> \o Remove(Tail(s), c)

\* str.replace(c, r) for single characters c, r
ReplaceCh(s, c, r) == [i \in DOMAIN s |-> IF s[i] = c THEN r ELSE s[i]]

\* str.strip(): leading and trailing blanks removed
RECURSIVE LStrip(_)
LStrip(s) == IF s # <<>> /\ Head(s) = " " THEN LStrip(Tail(s)) ELSE s
RECURSIVE RStrip(_)
RStrip(s) ==
    IF s # <<>> /\ s[Len(s)] = " " THEN RStrip(SubSeq(s, 1, Len(s) - 1)) ELSE s
Strip(s) == RStrip(LStrip(s))

normalize_key(s) ==
    Remove(Remove(ReplaceCh(Lower(Strip(s)), " ", "-"), "'"), ",")

\* int(s) of Python for a string of the model's alphabet: an optional sign
\* and at least one digit.  IntOk says whether int(s) succeeds.
DigitVal(c) ==
    CASE c = "0" -> 0 [] c = "1" -> 1 [] c = "2" -> 2 [] c = "3" -> 3
      [] c = "4" -> 4 [] c = "5" -> 5 [] c = "6" -> 6 [] c = "7" -> 7
      [] c = "8" -> 8 [] c = "9" -> 9

AllDigits(s) == s # <<>> /\ \A i \in DOMAIN s : s[i] \in Digits

RECURSIVE NatVal(_)
NatVal(s) ==
    IF s = <<>> THEN 0
    ELSE 10 * NatVal(SubSeq(s, 1, Len(s) - 1)) + DigitVal(s[Len(s)])

IntOk(s) ==
    IF s # <<>> /\ s[1] \in {"+", "-"} THEN AllDigits(Tail(s)) ELSE AllDigits(s)

IntVal(s) ==
    IF s[1] = "-" THEN 0 - NatVal(Tail(s))
    ELSE IF s[1] = "+" THEN NatVal(Tail(s))
    ELSE NatVal(s)

----------------------------------------------------------------------------
(* Rules tables *)

\* the modifier with the quotient truncated toward zero
ability_mod_trunc(score) ==
    IF score >= 10 THEN (score - 10) \div 2 ELSE 0 - ((10 - score) \div 2)

ability_mod(score) == (score - 10) \div 2

proficiency_bonus(level) == 2 + (Max(0, level - 1) \div 4)

XP_LEVELS ==
    <<0, 300, 900, 2700, 6500, 14000, 23000, 34000, 48000, 64000,
      85000, 100000, 120000, 140000, 165000, 195000, 225000, 265000,
      305000, 355000>>

CONDITIONS ==
    {"blinded", "charmed", "deafened", "exhaustion", "frightened",
     "grappled", "incapacitated", "invisible", "paralyzed", "petrified",
     "poisoned", "prone", "restrained", "stunned", "unconscious"}

STR == <<"S","T","R">>
DEX == <<"D","E","X">>
CON == <<"C","O","N">>
INT == <<"I","N","T">>
WIS == <<"W","I","S">>
CHA == <<"C","H","A">>

----------------------------------------------------------------------------
(* Character: the methods, as functions from the object's fields (and the *)
(* arguments) to the fields after the call and the value returned.         *)

\* Character.ability_mod(ability)
Character_ability_mod(ch, ability) == ability_mod(Get(ch.abilities, Upper(ability), 10))

prof_bonus(ch) == proficiency_bonus(ch.level)

saving_throw_modifier(ch, ability) ==
    Character_ability_mod(ch, ability)
    + (IF Get(ch.saves_proficiency, Upper(ability), FALSE) THEN prof_bonus(ch) ELSE 0)

TempUsedNone(temp_hp, amount) == 0

\* the part of incoming damage that temporary hit points absorb
TempUsed(temp_hp, amount) == IF temp_hp > 0 THEN Min(temp_hp, amount) ELSE 0

ConcentrationDCFloor(amount) == Max(10, amount \div 2)

\* the difficulty of the concentration check for `amount` damage
ConcentrationDC(amount) == Max(10, CeilHalf(amount))

apply_damage(ch, amount, con_save_roll) ==
    LET used == TempUsed(ch.temp_hp, amount)
        remaining == amount - used
        hp == Max(0, ch.current_hp - remaining)
        broken == /\ ch.concentration # None
                  /\ con_save_roll # None
                  /\ con_save_roll[1] < ConcentrationDC(amount)
    IN  [self |-> [ch EXCEPT !.temp_hp = @ - used,
                             !.current_hp = hp,
                             !.concentration = IF broken THEN None ELSE @],
         ret |-> [current_hp |-> hp,
                  temp_hp |-> ch.temp_hp - used,
                  concentration_broken |-> broken]]

\* healing that does not stop at max_hp
heal_uncapped(ch, amount) ==
    [self |-> [ch EXCEPT !.current_hp = @ + amount],
     ret |-> [current_hp |-> ch.current_hp + amount]]

heal(ch, amount) ==
    LET hp == Min(ch.max_hp, ch.current_hp + amount)
    IN  [self |-> [ch EXCEPT !.current_hp = hp], ret |-> [current_hp |-> hp]]

\* the loop of short_rest from position i (1-based) of hit_die_rolls
RECURSIVE ShortRestFrom(_, _, _, _)
ShortRestFrom(ch, i, hit_die_rolls, recovered_hp_per_roll) ==
    IF i > Len(hit_die_rolls) \/ ch.hit_die_total <= 0 THEN ch
    ELSE LET spent == [ch EXCEPT !.hit_die_total = @ - 1]
             recovered ==
                 IF /\ recovered_hp_per_roll # None
                    /\ recovered_hp_per_roll[1] # <<>>
                    /\ i <= Len(recovered_hp_per_roll[1])
                 THEN recovered_hp_per_roll[1][i]
                 ELSE hit_die_rolls[i] + Character_ability_mod(ch, CON)
         IN  ShortRestFrom(heal(spent, Max(0, recovered)).self, i + 1,
                           hit_die_rolls, recovered_hp_per_roll)

short_rest(ch, hit_die_rolls, recovered_hp_per_roll) ==
    ShortRestFrom(ch, 1, hit_die_rolls, recovered_hp_per_roll)

\* a rest that restores hit points and nothing else, whatever is asked
long_rest_hp_only(ch, restore_full_hp, restore_spell_slots) ==
    [ch EXCEPT !.current_hp = ch.max_hp, !.temp_hp = 0, !.concentration = None,
               !.conditions = EmptyDict]

long_rest(ch, restore_full_hp, restore_spell_slots) ==
    [ch EXCEPT
        !.current_hp = IF restore_full_hp THEN ch.max_hp ELSE @,
        !.spell_slots = IF restore_spell_slots
                        THEN [l \in DOMAIN ch.spell_slots |->
                                 [current |-> ch.spell_slots[l].max,
                                  max |-> ch.spell_slots[l].max]]
                        ELSE @,
        !.temp_hp = 0,
        !.concentration = None,
        !.conditions = EmptyDict]

\* a condition of any name is taken
add_condition_any(ch, condition, rounds) ==
    [ch EXCEPT !.conditions = Put(@, condition, rounds)]

add_condition(ch, condition, rounds) ==
    IF condition \in CONDITIONS
    THEN [ch EXCEPT !.conditions = Put(@, condition, rounds)]
    ELSE ch

remove_condition(ch, condition) ==
    [ch EXCEPT !.conditions = Drop(@, {condition})]

\* a tick that counts down and never removes
tick_conditions_keep(ch) ==
    [ch EXCEPT !.conditions =
        [c \in DOMAIN @ |-> IF @[c] > 0 THEN @[c] - 1 ELSE @[c]]]

tick_conditions(ch) ==
    LET ticked == [c \in DOMAIN ch.conditions |->
                      IF ch.conditions[c] > 0 THEN ch.conditions[c] - 1
                      ELSE ch.conditions[c]]
        remove == {c \in DOMAIN ch.conditions :
                      ch.conditions[c] > 0 /\ ticked[c] <= 0}
    IN  [ch EXCEPT !.conditions = Drop(ticked, remove)]

\* the slot is taken before it is known to be there
use_spell_slot_unchecked(ch, level) ==
    IF level \notin DOMAIN ch.spell_slots THEN [self |-> ch, ret |-> FALSE]
    ELSE [self |-> [ch EXCEPT !.spell_slots[level].current = @ - 1],
          ret |-> ch.spell_slots[level].current > 0]

\* a slot use that lowers the level's max with its current count
use_spell_slot_both(ch, level) ==
    IF level \notin DOMAIN ch.spell_slots \/ ch.spell_slots[level].current <= 0
    THEN [self |-> ch, ret |-> FALSE]
    ELSE [self |-> [ch EXCEPT !.spell_slots[level].current = @ - 1,
                              !.spell_slots[level].max = @ - 1],
          ret |-> TRUE]

use_spell_slot(ch, level) ==
    IF level \notin DOMAIN ch.spell_slots \/ ch.spell_slots[level].current <= 0
    THEN [self |-> ch, ret |-> FALSE]
    ELSE [self |-> [ch EXCEPT !.spell_slots[level].current = @ - 1], ret |-> TRUE]

\* a scan that stops after one level
LevelScanOne(xp, lvl, new_level) ==
    IF lvl <= 20 /\ xp >= XP_LEVELS[lvl] THEN lvl ELSE new_level

\* the scan of try_level_up: the level reached, starting the scan at lvl
RECURSIVE LevelScan(_, _, _)
LevelScan(xp, lvl, new_level) ==
    IF lvl > 20 THEN new_level
    ELSE IF xp >= XP_LEVELS[lvl] THEN LevelScan(xp, lvl + 1, lvl)
    ELSE new_level

try_level_up(ch) ==
    LET new_level == LevelScan(ch.xp, ch.level + 1, ch.level)
        avg == CeilHalf(ch.hit_die) + 1
    IN  IF new_level > ch.level
        THEN [self |-> [ch EXCEPT !.level = new_level,
                                  !.max_hp = @ + avg * (new_level - ch.level)],
              ret |-> TRUE]
        ELSE [self |-> ch, ret |-> FALSE]

----------------------------------------------------------------------------
(* Dice expressions *)

\* the index (1-based) at which roll_expression splits off the modifier:
\* the last sign that starts the string or follows a digit or "d"; 0 if none
ModIdx(e) ==
    LET splits == {i \in DOMAIN e :
                      /\ e[i] \in {"+", "-"}
                      /\ (i = 1 \/ e[i - 1] \in Digits \cup {"d"})}
    IN  IF splits = {} THEN 0 ELSE CHOOSE i \in splits : \A j \in splits : j <= i

Raised(kind) == [raised |-> kind]

\* roll_expression(expr): the set of outcomes the random rolls allow, each
\* either a raised error or the total returned
roll_expression(expr) ==
    IF Strip(expr) = <<>> THEN {Raised("ValueError")}
    ELSE
    LET e0 == Lower(Remove(expr, " "))
        mod_idx == ModIdx(e0)
        mod_part == IF mod_idx = 0 THEN <<>> ELSE SubSeq(e0, mod_idx, Len(e0))
        e == IF mod_idx = 0 THEN e0 ELSE SubSeq(e0, 1, mod_idx - 1)
    IN  IF mod_idx # 0 /\ ~IntOk(mod_part) THEN {Raised("ValueError")}
        ELSE
        LET plus == IF mod_idx = 0 THEN 0 ELSE IntVal(mod_part)
        IN  IF e = <<>> THEN {[total |-> plus]}
            ELSE IF "d" \in Range(e)
            THEN LET at == CHOOSE i \in DOMAIN e :
                               e[i] = "d" /\ \A j \in 1..(i - 1) : e[j] # "d"
                     n_str == SubSeq(e, 1, at - 1)
                     m_str == SubSeq(e, at + 1, Len(e))
                 IN  IF (n_str # <<>> /\ ~IntOk(n_str)) \/ ~IntOk(m_str)
                     THEN {Raised("ValueError")}
                     ELSE LET n == IF n_str # <<>> THEN IntVal(n_str) ELSE 1
                              m == IntVal(m_str)
                          IN  IF n < 1 \/ m < 1 \/ n > 1000 \/ m > 10000
                              THEN {Raised("ValueError")}
                              ELSE {[total |-> t + plus] : t \in n..(n * m)}
            ELSE IF IntOk(e) THEN {[total |-> IntVal(e) + plus]}
            ELSE {Raised("ValueError")}

IsRaised(r) == "raised" \in DOMAIN r

\* _roll_damage_expr(expr) for an Optional[str]
roll_damage_expr(expr) ==
    IF expr = None \/ expr[1] = <<>> THEN {[total |-> 0]}
    ELSE roll_expression(expr[1])

----------------------------------------------------------------------------
(* Spell lookup *)

\* load_spell_library on a file holding an array of entries: every named
\* entry is stored under its lower-cased and its normalized name (a later
\* entry replaces an earlier one with the same key)
RECURSIVE LibraryOf(_, _)
LibraryOf(entries, lib) ==
    IF entries = <<>> THEN lib
    ELSE LET sp == Head(entries)
         IN  IF sp.name = <<>> THEN LibraryOf(Tail(entries), lib)
             ELSE LibraryOf(Tail(entries),
                            Put(Put(lib, Lower(sp.name), sp), normalize_key(sp.name), sp))

\* the index load_spell_library rebuilds from the library's keys
IndexOf(lib) == [k \in DOMAIN lib |-> normalize_key(k)]

\* get_spell_by_name(name): the set of outcomes, one per answer the remote
\* lookup can give.  `remote` is the record the service holds per index.
\* Each outcome: the spell found (or None), the library afterwards, and
\* whether the remote lookup was invoked.
get_spell_by_name(name, library, index, remote) ==
    LET key == Lower(Strip(name))
        norm == normalize_key(name)
        candidate == ReplaceCh(Lower(name), " ", "-")
        first == IF Get(index, key, <<>>) # <<>> THEN index[key]
                 ELSE Get(index, norm, <<>>)
        idx == IF first # <<>> THEN first ELSE Get(index, candidate, <<>>)
        local == IF key \in DOMAIN library THEN Some(library[key])
                 ELSE IF norm \in DOMAIN library THEN Some(library[norm])
                 ELSE None
        miss == [sp |-> local, library |-> library, remote |-> idx # <<>>]
    IN  IF name = <<>> THEN {[sp |-> None, library |-> library, remote |-> FALSE]}
        ELSE IF key \in DOMAIN library
        THEN {[sp |-> Some(library[key]), library |-> library, remote |-> FALSE]}
        ELSE IF idx = <<>> THEN {miss}
        ELSE {miss} \cup
             {[sp |-> Some(remote[i]),
               library |-> Put(Put(library, Lower(remote[i].name), remote[i]),
                               normalize_key(remote[i].name), remote[i]),
               remote |-> TRUE] : i \in {idx} \cap DOMAIN remote}

\* the caster's known spell with that name, case-insensitively; else None
KnownSpell(ch, spell_name) ==
    LET hits == {i \in DOMAIN ch.spells : Lower(ch.spells[i].name) = Lower(spell_name)}
    IN  IF hits = {} THEN None
        ELSE Some(ch.spells[CHOOSE i \in hits : \A j \in hits : i <= j])

----------------------------------------------------------------------------
(* CombatEncounter: helpers *)

IdOf(h, c) == h[c.character].char_id

\* next((c for c in combatants if c.character.char_id == id), None), as the
\* position of that combatant; 0 for None
Find(h, cs, id) ==
    LET hits == {i \in DOMAIN cs : IdOf(h, cs[i]) = id}
    IN  IF hits = {} THEN 0 ELSE CHOOSE i \in hits : \A j \in hits : i <= j

\* the sort key of start()
SortKey(h, c) ==
    <<IF c.initiative # None THEN c.initiative[1] ELSE -999,
      Character_ability_mod(h[c.character], DEX)>>

\* KeyGreater with the DEX tie-break left out of the sort key
KeyGreaterNoTieBreak(k1, k2) == k1[1] > k2[1]

\* tuple comparison k1 > k2
KeyGreater(k1, k2) == k1[1] > k2[1] \/ (k1[1] = k2[1] /\ k1[2] > k2[2])

\* list.sort(key=..., reverse=True): descending and stable
RECURSIVE InsertDesc(_, _, _)
InsertDesc(h, sorted, c) ==
    IF sorted = <<>> THEN <<c>>
    ELSE IF KeyGreater(SortKey(h, c), SortKey(h, Head(sorted)))
    THEN <<c>> \o sorted
    ELSE <<Head(sorted)>> \o InsertDesc(h, Tail(sorted), c)

RECURSIVE SortDesc(_, _, _)
SortDesc(h, cs, acc) ==
    IF cs = <<>> THEN acc ELSE SortDesc(h, Tail(cs), InsertDesc(h, acc, Head(cs)))

\* the loop `for c in combatants: c.character.tick_conditions()` from i on
RECURSIVE TickAll(_, _, _)
TickAll(h, cs, i) ==
    IF i > Len(cs) THEN h
    ELSE TickAll([h EXCEPT ![cs[i].character] = tick_conditions(@)], cs, i + 1)

\* current_combatant(): the cursor it leaves, given a non-empty roster
CursorRepaired(cs, ti) == IF ti < 0 \/ ti >= Len(cs) THEN 0 ELSE ti

----------------------------------------------------------------------------
(* Bounds of the model *)

MaxHp == 3          \* largest max_hp a character is created with
MaxTemp == 1        \* largest temp_hp a character is created with
HpCap == 4          \* hit points above which the model stops adding more
MaxDamage == 3      \* largest damage amount passed in
MaxHeal == 2        \* largest healing amount (and negative damage) passed in
MaxHitDice == 2     \* largest hit-dice pool, and most rolls in a short rest
MaxRoll == 2        \* largest hit-die roll passed to short_rest

----------------------------------------------------------------------------
(* Objects *)

\* Character(name=...): the dataclass defaults
Character(id) ==
    [char_id |-> id, level |-> 1, max_hp |-> 8, current_hp |-> 8, temp_hp |-> 0,
     hit_die |-> 8, hit_die_total |-> 1, armor_class |-> 10,
     abilities |-> (STR :> 10 @@ DEX :> 10 @@ CON :> 10 @@ INT :> 10
                    @@ WIS :> 10 @@ CHA :> 10),
     saves_proficiency |-> (STR :> FALSE @@ DEX :> FALSE @@ CON :> FALSE
                            @@ INT :> FALSE @@ WIS :> FALSE @@ CHA :> FALSE),
     conditions |-> EmptyDict, inventory |-> <<>>, spells |-> <<>>,
     spell_slots |-> EmptyDict,
     concentration |-> None, xp |-> 0]

\* Spell(name, level, ...): the fields the engine reads; the rest default
Spell(name, level, damage_expr, save, save_half) ==
    [name |-> name, level |-> level, damage_expr |-> damage_expr,
     save |-> save, save_half |-> save_half, concentration |-> FALSE]

\* Character.start_concentration(spell, save_dc, started_at_round)
start_concentration(ch, spell, save_dc, started_at_round) ==
    [ch EXCEPT !.concentration =
        Some([spell |-> spell, save_dc |-> save_dc,
              started_at_round |-> started_at_round])]

Bless == Spell(<<"B","l","e","s","s">>, 1, None, None, FALSE)

\* sequences over S of length at most n
RECURSIVE SeqsUpTo(_, _)
SeqsUpTo(S, n) ==
    IF n = 0 THEN {<<>>}
    ELSE LET shorter == SeqsUpTo(S, n - 1)
         IN  shorter \cup {Append(q, x) : q \in {t \in shorter : Len(t) = n - 1}, x \in S}

NoCall == [op |-> "init"]

----------------------------------------------------------------------------
(* Character operations, called on the object `r` directly *)

Refs == DOMAIN heap

Character_apply_damage(r, amount, con_save_roll) ==
    /\ heap[r].current_hp <= HpCap /\ heap[r].temp_hp <= HpCap
    /\ LET res == apply_damage(heap[r], amount, con_save_roll)
       IN  /\ heap' = [heap EXCEPT ![r] = res.self]
           /\ ret' = res.ret
    /\ call' = [op |-> "apply_damage", self |-> r, amount |-> amount,
                con_save_roll |-> con_save_roll]
    /\ lap' = None
    /\ UNCHANGED <<game_vars, encounter_vars, library_vars, started>>

Character_heal(r, amount) ==
    /\ LET res == heal(heap[r], amount)
       IN  /\ heap' = [heap EXCEPT ![r] = res.self]
           /\ ret' = res.ret
    /\ call' = [op |-> "heal"]
    /\ lap' = None
    /\ UNCHANGED <<game_vars, encounter_vars, library_vars, started>>

Character_short_rest(r, hit_die_rolls, recovered_hp_per_roll) ==
    /\ heap' = [heap EXCEPT ![r] = short_rest(@, hit_die_rolls, recovered_hp_per_roll)]
    /\ ret' = None
    /\ call' = [op |-> "short_rest", self |-> r, hit_die_rolls |-> hit_die_rolls,
                recovered_hp_per_roll |-> recovered_hp_per_roll]
    /\ lap' = None
    /\ UNCHANGED <<game_vars, encounter_vars, library_vars, started>>

Character_long_rest(r, restore_full_hp, restore_spell_slots) ==
    /\ heap' = [heap EXCEPT ![r] = long_rest(@, restore_full_hp, restore_spell_slots)]
    /\ ret' = None
    /\ call' = [op |-> "long_rest", self |-> r,
                restore_full_hp |-> restore_full_hp,
                restore_spell_slots |-> restore_spell_slots]
    /\ lap' = None
    /\ UNCHANGED <<game_vars, encounter_vars, library_vars, started>>

Character_try_level_up(r) ==
    /\ LET res == try_level_up(heap[r])
       IN  /\ heap' = [heap EXCEPT ![r] = res.self]
           /\ ret' = res.ret
    /\ call' = [op |-> "try_level_up", self |-> r]
    /\ lap' = None
    /\ UNCHANGED <<game_vars, encounter_vars, library_vars, started>>

----------------------------------------------------------------------------
(* Game and CombatEncounter operations *)

MaxCombatants == 3  \* largest roster the model builds
MaxRound == 3       \* round after which the model stops advancing turns

\* Combatant(character=char): initiative None, alive True
Combatant(r) == [character |-> r, initiative |-> None, alive |-> TRUE]

\* the history of consecutive next_turn calls, reset by any other operation
LapAfterStart == Some([n |-> 0, size |-> Len(combatants),
                       base |-> [r \in Refs |-> heap[r].conditions]])
LapAfterNextTurn ==
    IF lap # None /\ lap[1].n < lap[1].size
    THEN Some([lap[1] EXCEPT !.n = @ + 1])
    ELSE None

Game_add_to_encounter(char_id) ==
    /\ Len(combatants) < MaxCombatants
    /\ IF char_id \notin DOMAIN characters
       THEN /\ ret' = Raised("ValueError")
            /\ UNCHANGED combatants
       ELSE /\ combatants' = Append(combatants, Combatant(characters[char_id]))
            /\ ret' = None
    /\ call' = [op |-> "add_to_encounter"]
    /\ lap' = None
    /\ UNCHANGED <<heap, game_vars, round, turn_index, library_vars, started>>

\* the roster without the combatants of that character id
Without(h, cs, char_id) == SelectSeq(cs, LAMBDA c : IdOf(h, c) # char_id)

CombatEncounter_remove_combatant(char_id) ==
    /\ combatants' = Without(heap, combatants, char_id)
    /\ ret' = None
    /\ call' = [op |-> "remove_combatant", char_id |-> char_id]
    /\ lap' = None
    /\ UNCHANGED <<heap, game_vars, round, turn_index, library_vars, started>>

\* the roster start() leaves: initiatives assigned, then sorted
Started(h, cs, initiatives) ==
    SortDesc(h, [i \in DOMAIN cs |->
                    [cs[i] EXCEPT !.initiative = Some(Get(initiatives, IdOf(h, cs[i]), 0))]],
             <<>>)

CombatEncounter_start(initiatives) ==
    /\ combatants' = Started(heap, combatants, initiatives)
    /\ round' = 1
    /\ turn_index' = 0
    /\ ret' = None
    /\ call' = [op |-> "start", initiatives |-> initiatives]
    /\ started' = Some(Len(combatants))
    /\ lap' = LapAfterStart
    /\ UNCHANGED <<heap, game_vars, library_vars>>

\* whether next_turn's new cursor counts as a wrap
Wrapped(ti) == ti = 0

CombatEncounter_next_turn ==
    /\ round < MaxRound
    /\ IF combatants = <<>>
       THEN /\ ret' = Raised("RuntimeError")
            /\ lap' = None
            /\ UNCHANGED <<heap, round, turn_index>>
       ELSE LET ti == (turn_index + 1) % Len(combatants)
            IN  /\ round' = IF Wrapped(ti) THEN round + 1 ELSE round
                /\ heap' = IF Wrapped(ti) THEN TickAll(heap, combatants, 1) ELSE heap
                /\ turn_index' = CursorRepaired(combatants, ti)
                /\ ret' = [combatant |-> CursorRepaired(combatants, ti)]
                /\ lap' = LapAfterNextTurn
    /\ call' = [op |-> "next_turn"]
    /\ UNCHANGED <<game_vars, combatants, library_vars, started>>

CombatEncounter_previous_turn ==
    /\ IF combatants = <<>>
       THEN /\ ret' = Raised("RuntimeError")
            /\ UNCHANGED turn_index
       ELSE LET ti == (turn_index - 1) % Len(combatants)
            IN  /\ turn_index' = CursorRepaired(combatants, ti)
                /\ ret' = [combatant |-> CursorRepaired(combatants, ti)]
    /\ call' = [op |-> "previous_turn"]
    /\ lap' = None
    /\ UNCHANGED <<heap, game_vars, combatants, round, library_vars, started>>

\* hit = attack_roll_total >= defender.character.armor_class
HitAboveOnly(attack_roll_total, armor_class) == attack_roll_total > armor_class

Hit(attack_roll_total, armor_class) == attack_roll_total >= armor_class

AppliedDamageNoCrit(damage, crit, hit) == IF hit THEN damage ELSE 0

\* applied_damage = damage * (2 if crit else 1) if hit else 0
AppliedDamage(damage, crit, hit) ==
    IF hit THEN damage * (IF crit THEN 2 ELSE 1) ELSE 0

\* `if character.current_hp <= 0: combatant.alive = False`
AliveAfter(alive, current_hp) == IF current_hp <= 0 THEN FALSE ELSE alive

CombatEncounter_perform_attack(attacker_id, defender_id, attack_roll_total, damage, crit) ==
    /\ \A r \in Refs : heap[r].current_hp <= HpCap /\ heap[r].temp_hp <= HpCap
    /\ LET ai == Find(heap, combatants, attacker_id)
           di == Find(heap, combatants, defender_id)
       IN  IF ai = 0 \/ di = 0
           THEN /\ ret' = Raised("ValueError")
                /\ UNCHANGED <<heap, combatants>>
           ELSE LET d == combatants[di].character
                    hit == Hit(attack_roll_total, heap[d].armor_class)
                    applied_damage == AppliedDamage(damage, crit, hit)
                    res == apply_damage(heap[d], applied_damage, None)
                    before == [hit |-> hit, applied_damage |-> applied_damage,
                               defender_before_hp |-> heap[d].current_hp]
                IN  IF hit
                    THEN /\ heap' = [heap EXCEPT ![d] = res.self]
                         /\ combatants' =
                                [combatants EXCEPT ![di].alive =
                                    AliveAfter(@, res.self.current_hp)]
                         /\ ret' = before @@ res.ret
                                   @@ [defender_alive |-> ~(res.self.current_hp <= 0)]
                    ELSE /\ ret' = before
                         /\ UNCHANGED <<heap, combatants>>
    /\ call' = [op |-> "perform_attack", attacker_id |-> attacker_id,
                defender_id |-> defender_id,
                attack_roll_total |-> attack_roll_total,
                damage |-> damage, crit |-> crit]
    /\ lap' = None
    /\ UNCHANGED <<game_vars, round, turn_index, library_vars, started>>

\* `if sp.save`, `if not expr`: an Optional[str] is true when it is a
\* string that is not empty
Truthy(opt) == opt # None /\ opt[1] # <<>>

\* sides of the die cast_spell rolls for a saving throw
D20 == 20

\* the rolls of that die the model draws: the lowest and the highest, and
\* those next to the difficulty of a level-1 caster's spell and of a
\* concentration check
SaveRolls == {1, 9, 10, 11, 12, D20}

SlotLevelOfSpell(sp, slot_level) == sp.level

\* lvl_to_use = slot_level if slot_level and slot_level >= sp.level
\*              else sp.level
SlotLevelToUse(sp, slot_level) ==
    IF slot_level # None /\ slot_level[1] # 0 /\ slot_level[1] >= sp.level
    THEN slot_level[1]
    ELSE sp.level

\* dc = 8 + prof_bonus() + ability_mod(caster_ability)
SaveDC(ch, caster_ability) ==
    8 + prof_bonus(ch) + Character_ability_mod(ch, caster_ability)

\* damage_done of cast_spell; save_succeeded is None, Some(TRUE) or
\* Some(FALSE)
DamageDone(sp, damage_total, save_succeeded) ==
    IF Truthy(sp.save) /\ sp.save_half /\ save_succeeded = Some(TRUE)
    THEN Max(0, damage_total \div 2)
    ELSE IF /\ Truthy(sp.damage_expr)
            /\ (~Truthy(sp.save) \/ save_succeeded # Some(TRUE) \/ ~sp.save_half)
         THEN damage_total
         ELSE 0

NoneAfterAbsent(target_ids) == <<>>

\* `continue` on a target that is not in the encounter: the loop goes on
\* with the ids after it
RestAfterAbsent(target_ids) == Tail(target_ids)

\* the loop of cast_spell over target_ids: the set of outcomes the rolls
\* allow, each the heap and roster afterwards and either the per-target
\* results or the error that roll_expression raised on the way.  Of a
\* target's entry the names and save_roll_total are not kept, and
\* damage_roll holds the total in place of the text that spells it out.
RECURSIVE CastTargets(_, _, _, _, _, _)
CastTargets(h, cs, sp, dc, target_ids, targets) ==
    IF target_ids = <<>>
    THEN {[heap |-> h, combatants |-> cs, ret |-> targets]}
    ELSE
    LET tid == Head(target_ids)
        ti == Find(h, cs, tid)
    IN  IF ti = 0
        THEN CastTargets(h, cs, sp, dc, RestAfterAbsent(target_ids),
                         Put(targets, tid, [error |-> "target not in encounter"]))
        ELSE
        LET t == cs[ti].character
            save_rolls ==
                IF Truthy(sp.save)
                THEN {Some(roll + saving_throw_modifier(h[t], sp.save[1])) :
                         roll \in SaveRolls}
                ELSE {None}
            After(save_roll_val, rolled) ==
                IF IsRaised(rolled)
                THEN {[heap |-> h, combatants |-> cs, ret |-> rolled]}
                ELSE
                LET save_succeeded ==
                        IF save_roll_val = None THEN None
                        ELSE Some(save_roll_val[1] >= dc)
                    damage_done == DamageDone(sp, rolled.total, save_succeeded)
                    applied == apply_damage(h[t], damage_done, save_roll_val)
                    entry == [save_required |-> Truthy(sp.save),
                              save_succeeded |-> save_succeeded,
                              damage_roll |-> rolled.total,
                              damage_applied |-> damage_done,
                              after |-> applied.ret]
                IN  CastTargets([h EXCEPT ![t] = applied.self],
                                [cs EXCEPT ![ti].alive =
                                    AliveAfter(@, applied.self.current_hp)],
                                sp, dc, Tail(target_ids),
                                Put(targets, tid, entry))
        IN  UNION {After(save_roll_val, rolled) :
                      save_roll_val \in save_rolls,
                      rolled \in roll_damage_expr(sp.damage_expr)}

\* the slot cast_spell takes from the caster: none for a cantrip
TakeSlot(ch, sp, slot_level) ==
    IF sp.level > 0 THEN use_spell_slot(ch, SlotLevelToUse(sp, slot_level))
    ELSE [self |-> ch, ret |-> TRUE]

\* cast_spell(caster_id, spell_name, slot_level, target_ids, caster_ability);
\* `remote` is what the spell service holds
CombatEncounter_cast_spell(caster_id, spell_name, slot_level, target_ids, caster_ability, remote) ==
    /\ \A r \in Refs : heap[r].current_hp <= HpCap /\ heap[r].temp_hp <= HpCap
    /\ LET ci == Find(heap, combatants, caster_id)
           args == [op |-> "cast_spell", caster_id |-> caster_id,
                    spell_name |-> spell_name, slot_level |-> slot_level,
                    target_ids |-> target_ids]
       IN  IF ci = 0
           THEN /\ ret' = Raised("ValueError")
                /\ call' = args @@ [sp |-> None, remote |-> FALSE]
                /\ UNCHANGED <<heap, combatants, SPELL_LIBRARY>>
           ELSE
           LET c == combatants[ci].character
               known == KnownSpell(heap[c], spell_name)
               lookups ==
                   IF known # None
                   THEN {[sp |-> known, library |-> SPELL_LIBRARY,
                          remote |-> FALSE]}
                   ELSE get_spell_by_name(spell_name, SPELL_LIBRARY,
                                          SPELL_INDEX, remote)
           IN  \E found \in lookups :
                 /\ SPELL_LIBRARY' = found.library
                 /\ call' = args @@ [sp |-> found.sp, remote |-> found.remote]
                 /\ IF found.sp = None
                    THEN /\ ret' = Raised("ValueError")
                         /\ UNCHANGED <<heap, combatants>>
                    ELSE
                    LET sp == found.sp[1]
                        taken == TakeSlot(heap[c], sp, slot_level)
                    IN  IF ~taken.ret
                        THEN /\ ret' = [error |-> SlotLevelToUse(sp, slot_level)]
                             /\ heap' = [heap EXCEPT ![c] = taken.self]
                             /\ UNCHANGED combatants
                        ELSE \E out \in CastTargets(
                                   [heap EXCEPT ![c] = taken.self], combatants,
                                   sp, SaveDC(taken.self, caster_ability),
                                   target_ids, EmptyDict) :
                               /\ heap' = out.heap
                               /\ combatants' = out.combatants
                               /\ ret' = IF IsRaised(out.ret) THEN out.ret
                                         ELSE [spell |-> sp.name,
                                               targets |-> out.ret]
    /\ lap' = None
    /\ UNCHANGED <<game_vars, round, turn_index, SPELL_INDEX, started>>

\* the loop of apply_area_damage over damage_map.items(); damage_map is
\* the sequence of its (id, damage) items, in insertion order
RECURSIVE AreaTargets(_, _, _, _, _)
AreaTargets(h, cs, damage_map, con_saves, results) ==
    IF damage_map = <<>>
    THEN [heap |-> h, combatants |-> cs, ret |-> results]
    ELSE
    LET tid == Head(damage_map)[1]
        dmg == Head(damage_map)[2]
        ti == Find(h, cs, tid)
    IN  IF ti = 0
        THEN AreaTargets(h, cs, Tail(damage_map), con_saves, results)
        ELSE
        LET t == cs[ti].character
            con_roll == IF con_saves # None /\ tid \in DOMAIN con_saves[1]
                        THEN Some(con_saves[1][tid]) ELSE None
            res == apply_damage(h[t], dmg, con_roll)
        IN  AreaTargets([h EXCEPT ![t] = res.self],
                        [cs EXCEPT ![ti].alive =
                            AliveAfter(@, res.self.current_hp)],
                        Tail(damage_map), con_saves, Put(results, tid, res.ret))

CombatEncounter_apply_area_damage(damage_map, con_saves) ==
    /\ \A r \in Refs : heap[r].current_hp <= HpCap /\ heap[r].temp_hp <= HpCap
    /\ LET out == AreaTargets(heap, combatants, damage_map, con_saves, EmptyDict)
       IN  /\ heap' = out.heap
           /\ combatants' = out.combatants
           /\ ret' = out.ret
    /\ call' = [op |-> "apply_area_damage"]
    /\ lap' = None
    /\ UNCHANGED <<game_vars, round, turn_index, library_vars, started>>

\* the damage_map EncounterWindow.area_damage builds: every combatant's id,
\* in roster order, with the same amount
RECURSIVE DamageMapOf(_, _, _, _)
DamageMapOf(h, cs, amount, acc) ==
    IF cs = <<>> THEN acc
    ELSE LET id == IdOf(h, Head(cs))
         IN  DamageMapOf(h, Tail(cs), amount,
                         IF \E i \in DOMAIN acc : acc[i][1] = id THEN acc
                         ELSE Append(acc, <<id, amount>>))

----------------------------------------------------------------------------
(* The character sheet: one character, every operation on it *)

SheetCharacters ==
    {[Character("hero") EXCEPT
         !.max_hp = m, !.current_hp = c, !.temp_hp = t, !.hit_die_total = d,
         !.concentration = k, !.xp = x] :
        m \in 1..MaxHp, c \in 0..MaxHp, t \in 0..MaxTemp, d \in 0..MaxHitDice,
        k \in {None, start_concentration(Character("hero"), Bless, 13, 1).concentration},
        x \in {0, 300, 900}}

InitSheet ==
    /\ heap \in [{1} -> {ch \in SheetCharacters : ch.current_hp <= ch.max_hp}]
    /\ characters = ("hero" :> 1)
    /\ combatants = <<>>
    /\ round = 0
    /\ turn_index = 0
    /\ SPELL_LIBRARY = EmptyDict
    /\ SPELL_INDEX = EmptyDict
    /\ party = <<>>
    /\ saved = None
    /\ started = None
    /\ lap = None
    /\ call = NoCall
    /\ ret = None

ApplyDamage ==
    \E r \in Refs, amount \in (0 - MaxHeal)..MaxDamage,
       con_save_roll \in {None, Some(9), Some(10)} :
        Character_apply_damage(r, amount, con_save_roll)

Heal == \E r \in Refs, amount \in 0..MaxHeal : Character_heal(r, amount)

ShortRest ==
    \E r \in Refs, rolls \in SeqsUpTo(1..MaxRoll, MaxHitDice) :
        Character_short_rest(r, rolls, None)

LongRest ==
    \E r \in Refs, hp \in BOOLEAN, slots \in BOOLEAN : Character_long_rest(r, hp, slots)

TryLevelUp == \E r \in Refs : Character_try_level_up(r)

NextSheet == ApplyDamage \/ Heal \/ ShortRest \/ LongRest \/ TryLevelUp

SpecSheet == InitSheet /\ [][NextSheet]_vars

\* C1: every character keeps 0 <= current_hp <= max_hp and temp_hp >= 0
\* under apply_damage, heal, short_rest, long_rest and try_level_up, for the
\* integer amounts the callers pass.
C1_HpInvariant ==
    \A r \in Refs :
        /\ 0 <= heap[r].current_hp
        /\ heap[r].current_hp <= heap[r].max_hp
        /\ heap[r].temp_hp >= 0

----------------------------------------------------------------------------
(* The turn engine: two characters, one encounter, the roster and cursor   *)
(* operations and an attack                                                *)

MaxInit == 1        \* largest initiative passed to start

\* subsets of S as dicts into V
DictsInto(S, V) == UNION {[K -> V] : K \in SUBSET S}

Ann(conditions) ==
    [Character("ann") EXCEPT !.abilities[DEX] = 14, !.max_hp = 1, !.current_hp = 1,
                             !.conditions = conditions]
Bob(conditions) ==
    [Character("bob") EXCEPT !.max_hp = 1, !.current_hp = 1,
                             !.conditions = conditions]

InitTurns ==
    /\ \E ca \in {"poisoned" :> 2, "poisoned" :> 1 @@ "prone" :> -1},
          cb \in {EmptyDict, "stunned" :> 3} :
            heap = <<Ann(ca), Bob(cb)>>
    /\ characters = ("ann" :> 1 @@ "bob" :> 2)
    /\ combatants = <<>>
    /\ round = 0
    /\ turn_index = 0
    /\ SPELL_LIBRARY = EmptyDict
    /\ SPELL_INDEX = EmptyDict
    /\ party = <<>>
    /\ saved = None
    /\ started = None
    /\ lap = None
    /\ call = NoCall
    /\ ret = None

AddToEncounter == \E id \in {"ann", "bob", "zed"} : Game_add_to_encounter(id)

RemoveCombatant == \E id \in {"ann", "bob"} : CombatEncounter_remove_combatant(id)

Start ==
    \E initiatives \in DictsInto({"ann", "bob"}, 1..MaxInit) :
        CombatEncounter_start(initiatives)

NextTurn == CombatEncounter_next_turn

PreviousTurn == CombatEncounter_previous_turn

NextTurns ==
    AddToEncounter \/ RemoveCombatant \/ Start \/ NextTurn \/ PreviousTurn

SpecTurns == InitTurns /\ [][NextTurns]_vars

\* C2: once the encounter has been started (on a roster that was not
\* empty), the roster is never empty and the cursor is a valid index into it.
C2_CursorValid ==
    (started # None /\ started[1] >= 1) =>
        /\ Len(combatants) >= 1
        /\ 0 <= turn_index
        /\ turn_index < Len(combatants)

\* the counter of condition c on character ch; 0 once it has been removed
Counter(ch, c) == Get(ch.conditions, c, 0)

\* C3: N next_turn calls in a row after start on N >= 1 combatants leave the
\* cursor on the first combatant, the round one higher than start left it,
\* and every positive condition counter of every combatant's character
\* exactly one lower.
C3_LapTicksOnce ==
    (lap # None /\ lap[1].size >= 1 /\ lap[1].n = lap[1].size) =>
        /\ turn_index = 0
        /\ round = 2
        /\ \A i \in DOMAIN combatants :
              LET r == combatants[i].character
              IN  \A c \in DOMAIN lap[1].base[r] :
                      lap[1].base[r][c] > 0 =>
                          Counter(heap[r], c) = lap[1].base[r][c] - 1

\* C4: in a started encounter a step raises round by one exactly when it is
\* a next_turn that moves the cursor from the last combatant to index 0, and
\* every other step of the roster, cursor and action operations leaves round
\* as it was.
C4_RoundStepsOnWrap ==
    [][(started # None /\ call'.op \in {"next_turn", "previous_turn",
                                         "add_to_encounter", "remove_combatant"})
       => /\ (round' = round + 1) <=>
                 /\ call'.op = "next_turn"
                 /\ turn_index = Len(combatants) - 1
                 /\ turn_index' = 0
          /\ (round' # round + 1 => round' = round)]_vars

----------------------------------------------------------------------------
(* Building and starting a roster *)

NextStart == AddToEncounter \/ RemoveCombatant \/ Start

SpecStart == InitTurns /\ [][NextStart]_vars

\* how many combatants of the roster wrap character r with that alive flag
CountOf(cs, r, alive) ==
    Cardinality({i \in DOMAIN cs : cs[i].character = r /\ cs[i].alive = alive})

\* C5: start assigns every combatant the initiative the map holds for its
\* character id (0 when absent), orders the roster so that no combatant's
\* (initiative, DEX modifier) is below its successor's, keeps the roster's
\* members, and sets round = 1 and turn_index = 0.
C5_StartOrdersRoster ==
    [][call'.op = "start" =>
        /\ \A i \in DOMAIN combatants' :
              combatants'[i].initiative =
                  Some(Get(call'.initiatives, IdOf(heap', combatants'[i]), 0))
        /\ \A i \in 1..(Len(combatants') - 1) :
              LET a == combatants'[i]
                  b == combatants'[i + 1]
                  da == ability_mod(heap'[a.character].abilities[DEX])
                  db == ability_mod(heap'[b.character].abilities[DEX])
              IN  \/ a.initiative[1] > b.initiative[1]
                  \/ (a.initiative[1] = b.initiative[1] /\ da >= db)
        /\ Len(combatants') = Len(combatants)
        /\ \A r \in Refs, alive \in BOOLEAN :
              CountOf(combatants', r, alive) = CountOf(combatants, r, alive)
        /\ round' = 1
        /\ turn_index' = 0]_vars

\* a start that had to reorder: bob was added first, ann (higher DEX) ties
\* with him on an initiative taken from the map, a third combatant gets the
\* default 0
C5_Witness ==
    /\ call.op = "start"
    /\ Len(combatants) = 3
    /\ "ann" \notin DOMAIN call.initiatives
    /\ "bob" \in DOMAIN call.initiatives
    /\ IdOf(heap, combatants[1]) = "bob"
    /\ IdOf(heap, combatants[2]) = "ann"
    /\ IdOf(heap, combatants[3]) = "ann"
    /\ combatants[1].initiative = Some(1)
    /\ combatants[3].initiative = Some(0)


----------------------------------------------------------------------------
(* Attacks: two characters in a roster that wraps one of them once or     *)
(* twice, perform_attack and apply_area_damage                           *)

MaxBlow == 2        \* largest damage argument of an attack

Fighter(temp_hp, concentration) ==
    [Character("ann") EXCEPT !.max_hp = 3, !.current_hp = 3, !.temp_hp = temp_hp,
                             !.armor_class = 11, !.concentration = concentration]
Archer == [Character("bob") EXCEPT !.max_hp = 2, !.current_hp = 2]

Concentrations ==
    {None, start_concentration(Character("ann"), Bless, 13, 1).concentration}

\* the roster Game.add_to_encounter builds from these ids, in this order
RosterOf(ids) == [i \in DOMAIN ids |-> Combatant(characters[ids[i]])]

AttackRosters == {<<"ann", "bob">>, <<"bob", "ann", "ann">>}

AttackRolls == {10, 11}

AttackPairs ==
    {<<"bob", "ann">>, <<"ann", "bob">>, <<"ann", "ann">>, <<"zed", "ann">>}

InitAttack ==
    /\ \E t \in {0, 1}, k \in Concentrations : heap = <<Fighter(t, k), Archer>>
    /\ characters = ("ann" :> 1 @@ "bob" :> 2)
    /\ \E ids \in AttackRosters : combatants = RosterOf(ids)
    /\ round = 0
    /\ turn_index = 0
    /\ SPELL_LIBRARY = EmptyDict
    /\ SPELL_INDEX = EmptyDict
    /\ party = <<>>
    /\ saved = None
    /\ started = None
    /\ lap = None
    /\ call = NoCall
    /\ ret = None

PerformAttack ==
    \E pair \in AttackPairs, attack_roll_total \in AttackRolls,
       damage \in 0..MaxBlow, crit \in BOOLEAN :
        CombatEncounter_perform_attack(pair[1], pair[2], attack_roll_total,
                                       damage, crit)

AreaDamage ==
    \E con_saves \in {None, Some("ann" :> 9)} :
        \E damage_map \in {DamageMapOf(heap, combatants, 1, <<>>),
                           <<<<"zed", 1>>, <<"ann", 2>>>>} :
            CombatEncounter_apply_area_damage(damage_map, con_saves)

NextAttack == PerformAttack \/ AreaDamage

SpecAttack == InitAttack /\ [][NextAttack]_vars

\* the defender perform_attack picked, in the state before the call
DefenderAt == Find(heap, combatants, call'.defender_id)

\* C6: a perform_attack with both ids present reports hit exactly when
\* attack_roll_total >= the defender's armor_class; on a miss the applied
\* damage is 0 and no character, combatant or encounter field changes.
C6_HitIffRollReachesAC ==
    [][(call'.op = "perform_attack" /\ ~IsRaised(ret')) =>
          LET d == combatants[DefenderAt].character
          IN  /\ ret'.hit <=> call'.attack_roll_total >= heap[d].armor_class
              /\ ~ret'.hit =>
                    /\ ret'.applied_damage = 0
                    /\ heap' = heap
                    /\ combatants' = combatants
                    /\ characters' = characters
                    /\ round' = round
                    /\ turn_index' = turn_index]_vars

\* a miss by one, with damage to deal, on the fighter (armor class 11)
C6_Witness ==
    /\ call.op = "perform_attack"
    /\ ~IsRaised(ret)
    /\ ~ret.hit
    /\ call.defender_id = "ann"
    /\ call.attack_roll_total = 10
    /\ call.damage = 2
    /\ call.crit

\* C7: on a hit perform_attack applies damage * 2 when crit is set and
\* damage otherwise, through Character.apply_damage (temporary hit points
\* first, current_hp floored at 0); the defender combatant's alive flag is
\* cleared exactly when the defender's current_hp ends <= 0; no other
\* character and no other combatant changes.
C7_HitAppliesDamage ==
    [][(call'.op = "perform_attack" /\ ~IsRaised(ret') /\ ret'.hit) =>
          LET di == DefenderAt
              d == combatants[di].character
              amount == IF call'.crit THEN call'.damage * 2 ELSE call'.damage
              used == Min(heap[d].temp_hp, amount)
          IN  /\ ret'.applied_damage = amount
              /\ heap'[d] = apply_damage(heap[d], amount, None).self
              /\ amount >= 0 =>
                    /\ heap'[d].temp_hp = heap[d].temp_hp - used
                    /\ heap'[d].current_hp =
                           Max(0, heap[d].current_hp - (amount - used))
              /\ combatants'[di] =
                     [combatants[di] EXCEPT
                         !.alive = IF heap'[d].current_hp <= 0 THEN FALSE ELSE @]
              /\ ret'.defender_alive = (heap'[d].current_hp > 0)
              /\ Len(combatants') = Len(combatants)
              /\ \A i \in DOMAIN combatants \ {di} : combatants'[i] = combatants[i]
              /\ \A r \in Refs \ {d} : heap'[r] = heap[r]]_vars

\* a critical hit of the archer on the fighter for 2 * 2 that takes the
\* fighter from 3 hit points to 0 and clears its alive flag
C7_Witness ==
    /\ call.op = "perform_attack"
    /\ ~IsRaised(ret)
    /\ ret.hit
    /\ call.attacker_id = "bob"
    /\ call.defender_id = "ann"
    /\ call.crit
    /\ call.damage = 2
    /\ ret.applied_damage = 4
    /\ ret.defender_before_hp = 3
    /\ ret.current_hp = 0
    /\ ~combatants[Find(heap, combatants, "ann")].alive
    /\ combatants[Find(heap, combatants, "bob")].alive


----------------------------------------------------------------------------
(* Spells: a wizard and a fighter, the wizard's own spell, a library, a    *)
(* spell service, cast_spell                                               *)

\* the wizard's own spell: level 1, 1d2 damage, DEX save for half
Burn == Spell(<<"B","u","r","n">>, 1, Some(<<"1","d","2">>), Some(DEX), TRUE)
\* in the library: level 2, 2 damage, none on a save (the save in lower case)
Frost == Spell(<<"F","r","o","s","t">>, 2, Some(<<"2">>), Some(<<"d","e","x">>), FALSE)
\* in the library: a cantrip for 1 damage, no save
Spark == Spell(<<"S","p","a","r","k">>, 0, Some(<<"1">>), None, FALSE)
\* in the library: a level-1 spell whose damage expression does not parse
Hex == Spell(<<"H","e","x">>, 1, Some(<<"d">>), None, FALSE)

Wizard ==
    [Character("wiz") EXCEPT
        !.max_hp = 2, !.current_hp = 2, !.abilities[INT] = 14,
        !.spells = <<Burn>>,
        !.spell_slots = (1 :> [current |-> 1, max |-> 1]
                         @@ 2 :> [current |-> 1, max |-> 1])]

\* in the library: a level-1 spell with an apostrophe in its name
Mark == Spell(<<"H","u","n","t","e","r","'","s"," ","M","a","r","k">>, 1, None, None, FALSE)

\* held by the spell service only: level 1, 1 damage, no save
Zap == Spell(<<"Z","a","p">>, 1, Some(<<"1">>), None, FALSE)

\* in the library: a cantrip with a WIS save and no damage
Daze == Spell(<<"D","a","z","e">>, 0, None, Some(WIS), FALSE)

\* what the spell service holds, by index
Remote == (<<"z","a","p">> :> Zap)

InitCast ==
    /\ \E k \in Concentrations : heap = <<Wizard, Fighter(1, k)>>
    /\ characters = ("wiz" :> 1 @@ "ann" :> 2)
    /\ combatants = RosterOf(<<"ann", "wiz", "wiz">>)
    /\ round = 0
    /\ turn_index = 0
    /\ SPELL_LIBRARY = LibraryOf(<<Frost, Spark, Hex, Bless, Mark, Daze>>, EmptyDict)
    /\ SPELL_INDEX = IndexOf(SPELL_LIBRARY) @@ (<<"z","a","p">> :> <<"z","a","p">>)
    /\ party = <<>>
    /\ saved = None
    /\ started = None
    /\ lap = None
    /\ call = NoCall
    /\ ret = None

SpellNames ==
    {<<"b","u","r","n">>, Frost.name, Spark.name, Hex.name, Bless.name}

SlotLevels == {None} \cup {Some(s) : s \in 0..3}

\* the casts tried: every spell at every slot level on the fighter, and a
\* few with no target, a target that is absent, two targets, no such
\* caster, a spell with a save and no damage, a spell only the service
\* holds, a library spell spelled without its apostrophe and no such spell
CastCalls ==
    {<<"wiz", n, s, <<"ann">>>> : n \in SpellNames, s \in SlotLevels}
    \cup {<<"wiz", Spark.name, None, <<>>>>,
          <<"wiz", <<"b","u","r","n">>, None, <<"zed", "ann">>>>,
          <<"wiz", <<"b","u","r","n">>, None, <<"ann", "zed">>>>,
          <<"wiz", Spark.name, None, <<"zed">>>>,
          <<"wiz", Bless.name, Some(1), <<"ann", "wiz">>>>,
          <<"zed", Spark.name, None, <<"ann">>>>,
          <<"wiz", Daze.name, None, <<"ann">>>>,
          <<"wiz", Zap.name, None, <<"ann">>>>,
          <<"wiz", <<"H","u","n","t","e","r","s"," ","M","a","r","k">>, None, <<"ann">>>>,
          <<"wiz", <<"N","o","p","e">>, None, <<"ann">>>>}

CastSpell ==
    \E c \in CastCalls :
        CombatEncounter_cast_spell(c[1], c[2], c[3], c[4], INT, Remote)

NextCast == CastSpell

SpecCast == InitCast /\ [][NextCast]_vars

\* the caster cast_spell picked, in the state before the call
CasterAt == Find(heap, combatants, call'.caster_id)

\* the slot level the cast takes, as the specification words it: the
\* requested level s when one is given and s >= L, the spell's level L
\* otherwise
SlotLevelClaimed(L, s) == IF s # None /\ s[1] >= L THEN s[1] ELSE L

\* a cast that found its caster and its spell (a spell of level > 0 from
\* here on means one that needs a slot)
CastResolved == call'.op = "cast_spell" /\ call'.sp # None

\* a cast that went through: it returned per-target results
CastSucceeded == CastResolved /\ ~IsRaised(ret') /\ "targets" \in DOMAIN ret'

\* C8: when the caster has no slot left at the level cast_spell selects for
\* a leveled spell, cast_spell returns an error result and does not raise,
\* and the caster's spell slots and every combatant's current_hp, temp_hp,
\* concentration and alive flag are as before the call.
C8_NoSlotNoEffect ==
    [][(/\ CastResolved
        /\ call'.sp[1].level > 0
        /\ LET c == combatants[CasterAt].character
               lvl == SlotLevelClaimed(call'.sp[1].level, call'.slot_level)
           IN  Get(heap[c].spell_slots, lvl, [current |-> 0]).current <= 0)
       =>
       /\ ~IsRaised(ret')
       /\ "error" \in DOMAIN ret'
       /\ \A r \in Refs :
             /\ heap'[r].spell_slots = heap[r].spell_slots
             /\ heap'[r].current_hp = heap[r].current_hp
             /\ heap'[r].temp_hp = heap[r].temp_hp
             /\ heap'[r].concentration = heap[r].concentration
       /\ combatants' = combatants]_vars

\* the wizard, out of level-1 slots, casts its level-1 spell at the
\* fighter and is refused
C8_Witness ==
    /\ call.op = "cast_spell"
    /\ call.sp = Some(Burn)
    /\ call.slot_level = None
    /\ call.target_ids = <<"ann">>
    /\ "error" \in DOMAIN ret
    /\ heap[characters["wiz"]].spell_slots[1].current = 0
    /\ heap[characters["wiz"]].spell_slots[2].current = 1

\* the damage the specification gives a target for a rolled total D
DamageClaimed(sp, D, save_succeeded) ==
    IF Truthy(sp.save) /\ sp.save_half /\ save_succeeded = Some(TRUE) THEN D \div 2
    ELSE IF Truthy(sp.save) /\ ~sp.save_half /\ save_succeeded = Some(TRUE) THEN 0
    ELSE D

\* C9: for each present target of cast_spell with rolled total D, the
\* damage applied is floor(D/2) when the spell has a save, halves on save
\* and the save succeeded; 0 when it has a save, does not halve and the
\* save succeeded; D in every other case.
C9_DamageBySave ==
    [][CastSucceeded =>
          \A tid \in DOMAIN ret'.targets :
              LET e == ret'.targets[tid]
              IN  "error" \notin DOMAIN e =>
                      e.damage_applied =
                          DamageClaimed(call'.sp[1], e.damage_roll,
                                        e.save_succeeded)]_vars

\* C10: a cast_spell that goes through, of a spell of level L > 0 with
\* requested slot level s, takes exactly 1 from the caster's slots of level
\* s when s is given and s >= L, of level L otherwise, and changes no other
\* slot level; a cast of a level-0 spell changes no slot.
C10_OneSlotAtChosenLevel ==
    [][CastSucceeded =>
          LET c == combatants[CasterAt].character
              L == call'.sp[1].level
              lvl == SlotLevelClaimed(L, call'.slot_level)
              before == heap[c].spell_slots
              after == heap'[c].spell_slots
          IN  /\ DOMAIN after = DOMAIN before
              /\ \A r \in Refs \ {c} : heap'[r].spell_slots = heap[r].spell_slots
              /\ IF L > 0
                 THEN /\ lvl \in DOMAIN before
                      /\ after[lvl].current = before[lvl].current - 1
                      /\ after[lvl].max = before[lvl].max
                      /\ \A l \in DOMAIN before \ {lvl} : after[l] = before[l]
                 ELSE after = before]_vars

\* the wizard casts its level-1 spell with the level-2 slot asked for: the
\* level-2 slot is gone and the level-1 slot is still there
C10_Witness ==
    /\ call.op = "cast_spell"
    /\ call.sp = Some(Burn)
    /\ call.slot_level = Some(2)
    /\ "targets" \in DOMAIN ret
    /\ heap[characters["wiz"]].spell_slots[2].current = 0
    /\ heap[characters["wiz"]].spell_slots[1].current = 1


\* the ids of a target list that are in the encounter, in list order
Present(target_ids) ==
    SelectSeq(target_ids, LAMBDA tid : Find(heap, combatants, tid) # 0)

\* C11: in cast_spell a target id that is not in the encounter gets an
\* error entry of its own and does not stop the cast: the ids of the list
\* that are present are resolved, damaged and reported in list order, as
\* they are by the same cast on the list without the absent ids, and no
\* combatant changes on behalf of the absent id.
C11_AbsentTargetSkipped ==
    [][(CastSucceeded /\ Present(call'.target_ids) # call'.target_ids) =>
          LET c == combatants[CasterAt].character
              sp == call'.sp[1]
              taken == TakeSlot(heap[c], sp, call'.slot_level)
              present == Present(call'.target_ids)
              absent == {call'.target_ids[i] : i \in DOMAIN call'.target_ids}
                        \ {present[i] : i \in DOMAIN present}
          IN  /\ DOMAIN ret'.targets =
                     {call'.target_ids[i] : i \in DOMAIN call'.target_ids}
              /\ \A tid \in absent : DOMAIN ret'.targets[tid] = {"error"}
              /\ \A i \in DOMAIN present :
                     "damage_applied" \in DOMAIN ret'.targets[present[i]]
              /\ \E out \in CastTargets([heap EXCEPT ![c] = taken.self],
                                        combatants, sp, SaveDC(taken.self, INT),
                                        present, EmptyDict) :
                     /\ heap' = out.heap
                     /\ combatants' = out.combatants
                     /\ \A i \in DOMAIN present :
                            ret'.targets[present[i]] = out.ret[present[i]]]_vars

\* the wizard's spell cast at an absent id and then at the fighter, who
\* fails the save and takes the 2 rolled: 1 off the temporary hit point,
\* 1 off the 3 hit points
C11_Witness ==
    /\ call.op = "cast_spell"
    /\ call.sp = Some(Burn)
    /\ call.target_ids = <<"zed", "ann">>
    /\ "targets" \in DOMAIN ret
    /\ "error" \in DOMAIN ret.targets["zed"]
    /\ ret.targets["ann"].save_succeeded = Some(FALSE)
    /\ ret.targets["ann"].damage_applied = 2
    /\ ret.targets["ann"].after.current_hp = 2
    /\ heap[characters["ann"]].current_hp = 2


\* C12: a cast_spell of a resolved spell that fails on a malformed damage
\* expression leaves the state as it was before the call: no spell slot
\* consumed, no hit points, temporary hit points, concentration or alive
\* flag changed.
C12_FailedCastNoEffect ==
    [][(CastResolved /\ IsRaised(ret')) =>
          /\ \A r \in Refs :
                /\ heap'[r].spell_slots = heap[r].spell_slots
                /\ heap'[r].current_hp = heap[r].current_hp
                /\ heap'[r].temp_hp = heap[r].temp_hp
                /\ heap'[r].concentration = heap[r].concentration
          /\ combatants' = combatants]_vars


----------------------------------------------------------------------------
(* Damage and rest: one character with temporary hit points, conditions,   *)
(* spell slots and a spell it may be concentrating on                      *)

Cleric(current_hp, temp_hp, concentration, conditions, slots1) ==
    [Character("hero") EXCEPT
        !.max_hp = 3, !.current_hp = current_hp, !.temp_hp = temp_hp,
        !.concentration = concentration, !.conditions = conditions,
        !.spell_slots = (1 :> [current |-> slots1, max |-> 2]
                         @@ 3 :> [current |-> 0, max |-> 1])]

InitCare ==
    /\ \E current_hp \in {1, 3}, temp_hp \in {0, 1}, k \in Concentrations,
          conditions \in {EmptyDict, "poisoned" :> 2 @@ "prone" :> -1},
          slots1 \in {0, 2} :
           heap = <<Cleric(current_hp, temp_hp, k, conditions, slots1)>>
    /\ characters = ("hero" :> 1)
    /\ combatants = <<>>
    /\ round = 0
    /\ turn_index = 0
    /\ SPELL_LIBRARY = EmptyDict
    /\ SPELL_INDEX = EmptyDict
    /\ party = <<>>
    /\ saved = None
    /\ started = None
    /\ lap = None
    /\ call = NoCall
    /\ ret = None

\* amounts around the hit points at hand, and large ones whose halves pass
\* the floor of 10 of the concentration check
DamageAmounts == {0 - 1, 0, 1, 2, 4, 20, 21, 23}

ConSaveRolls == {None, Some(9), Some(10), Some(11), Some(12)}

TakeDamage ==
    \E r \in Refs, amount \in DamageAmounts, con_save_roll \in ConSaveRolls :
        Character_apply_damage(r, amount, con_save_roll)

Rest ==
    \E r \in Refs, hp \in BOOLEAN, slots \in BOOLEAN : Character_long_rest(r, hp, slots)

NextCare == TakeDamage \/ Rest

SpecCare == InitCare /\ [][NextCare]_vars

\* C13: apply_damage(amount) with amount >= 0 takes min(temp_hp, amount)
\* off temp_hp and the remainder off current_hp, floored at 0, and returns
\* the resulting current_hp and temp_hp; max_hp, conditions, spell slots
\* and hit dice are unchanged.
C13_DamageTempFirst ==
    [][(call'.op = "apply_damage" /\ call'.amount >= 0) =>
          LET r == call'.self
              amount == call'.amount
              used == Min(heap[r].temp_hp, amount)
          IN  /\ heap'[r].temp_hp = heap[r].temp_hp - used
              /\ heap'[r].current_hp = Max(0, heap[r].current_hp - (amount - used))
              /\ ret'.current_hp = heap'[r].current_hp
              /\ ret'.temp_hp = heap'[r].temp_hp
              /\ heap'[r].max_hp = heap[r].max_hp
              /\ heap'[r].conditions = heap[r].conditions
              /\ heap'[r].spell_slots = heap[r].spell_slots
              /\ heap'[r].hit_die = heap[r].hit_die
              /\ heap'[r].hit_die_total = heap[r].hit_die_total]_vars

\* 2 damage on 3 hit points behind 1 temporary hit point (or 4 on 3: the
\* floor): the temporary hit point is gone and 2 hit points are left
C13_Witness ==
    /\ call.op = "apply_damage"
    /\ call.amount = 2
    /\ ret.temp_hp = 0
    /\ ret.current_hp = 2
    /\ heap[1].current_hp = 2
    /\ heap[1].temp_hp = 0
    /\ heap[1].conditions # EmptyDict

\* C14: apply_damage ends concentration and reports concentration_broken
\* exactly when the character was concentrating, a constitution-save total
\* was supplied and that total is < max(10, ceil(amount/2)); in every other
\* case concentration is as before and concentration_broken is false.
C14_ConcentrationBreaks ==
    [][call'.op = "apply_damage" =>
          LET r == call'.self
              roll == call'.con_save_roll
              breaks == /\ heap[r].concentration # None
                        /\ roll # None
                        /\ (roll[1] < 10 \/ 2 * roll[1] < call'.amount)
          IN  /\ ret'.concentration_broken = breaks
              /\ heap'[r].concentration =
                     IF breaks THEN None ELSE heap[r].concentration]_vars

\* 21 damage and a constitution save of 10, below ceil(21/2) = 11: the
\* concentration is gone
C14_Witness ==
    /\ call.op = "apply_damage"
    /\ call.amount = 21
    /\ call.con_save_roll = Some(10)
    /\ ret.concentration_broken
    /\ heap[1].concentration = None

\* C20: long_rest always sets temp_hp to 0, concentration to none and the
\* condition map to empty; it sets current_hp to max_hp exactly when
\* restore_full_hp is true and leaves it otherwise; it sets every slot
\* level's current count to its max exactly when restore_spell_slots is
\* true and leaves all slot counts otherwise.
C20_LongRestRestores ==
    [][call'.op = "long_rest" =>
          LET r == call'.self
              before == heap[r]
              after == heap'[r]
          IN  /\ after.temp_hp = 0
              /\ after.concentration = None
              /\ after.conditions = EmptyDict
              /\ after.current_hp = IF call'.restore_full_hp THEN before.max_hp
                                    ELSE before.current_hp
              /\ after.max_hp = before.max_hp
              /\ DOMAIN after.spell_slots = DOMAIN before.spell_slots
              /\ \A l \in DOMAIN before.spell_slots :
                    /\ after.spell_slots[l].max = before.spell_slots[l].max
                    /\ after.spell_slots[l].current =
                           IF call'.restore_spell_slots
                           THEN before.spell_slots[l].max
                           ELSE before.spell_slots[l].current]_vars

\* a rest that restores the slots and not the hit points: the character is
\* still at 0 hit points, and its slots are full
C20_Witness ==
    /\ call.op = "long_rest"
    /\ ~call.restore_full_hp
    /\ call.restore_spell_slots
    /\ heap[1].current_hp = 0
    /\ heap[1].spell_slots[1].current = 2
    /\ heap[1].spell_slots[3].current = 1
    /\ heap[1].conditions = EmptyDict
    /\ heap[1].concentration = None


----------------------------------------------------------------------------
(* The round counter *)

\* C19: round is 0 in every state reached before start is first called,
\* whatever roster and cursor operations came before, and is >= 1 in every
\* state after start has been called, a repeated start included.
C19_RoundZeroUntilStart ==
    /\ started = None => round = 0
    /\ started # None => round >= 1


----------------------------------------------------------------------------
(* The order of spell lookup *)

\* C17: cast_spell resolves a spell name in the caster's known spells
\* first, then in the local library by normalized name, and looks it up
\* remotely only when neither has it: a name whose normalized form is a key
\* of the local library never triggers a remote lookup.
C17_LibraryBeforeRemote ==
    [][(call'.op = "cast_spell" /\ CasterAt # 0) =>
          LET c == combatants[CasterAt].character
              known == KnownSpell(heap[c], call'.spell_name)
              norm == normalize_key(call'.spell_name)
          IN  /\ known # None => (call'.sp = known /\ ~call'.remote)
              /\ (known = None /\ norm \in DOMAIN SPELL_LIBRARY) =>
                     (call'.sp = Some(SPELL_LIBRARY[norm]) /\ ~call'.remote)]_vars


----------------------------------------------------------------------------
(* Snapshots: Game.save and Game.load *)

\* Item(name, quantity, consumable): the fields the model keeps
Item(name, quantity, consumable) ==
    [name |-> name, quantity |-> quantity, consumable |-> consumable]

\* str(n) as json.dump writes an integer dict key
RECURSIVE NatStr(_)
NatStr(n) ==
    LET last == CHOOSE c \in Digits : DigitVal(c) = n % 10
    IN  IF n < 10 THEN <<last>> ELSE Append(NatStr(n \div 10), last)
JsonKey(n) == IF n < 0 THEN <<"-">> \o NatStr(0 - n) ELSE NatStr(n)

\* a dict with int keys after json.dump and json.load: its keys are the
\* strings json.dump wrote for them
JsonDict(d) ==
    [k \in {JsonKey(l) : l \in DOMAIN d} |->
        d[CHOOSE l \in DOMAIN d : JsonKey(l) = k]]

\* dataclasses.asdict on a dataclass instance: a plain dict of its fields
AsDict(obj) == [dict |-> obj]
IsDict(v) == DOMAIN v = {"dict"}

\* asdict on a value found inside a dict: an instance becomes a dict, a
\* dict stays one
AsDictInner(v) == IF IsDict(v) THEN v ELSE AsDict(v)

\* Spell(**d), Item(**d): the instance with the fields of the dict
FromFields(d) == d.dict

\* Character.to_dict(), then json.dump and json.load
Character_to_dict(ch) ==
    [ch EXCEPT
        !.inventory = [i \in DOMAIN ch.inventory |-> AsDict(ch.inventory[i])],
        !.spells = [i \in DOMAIN ch.spells |-> AsDict(ch.spells[i])],
        !.concentration =
            IF ch.concentration = None THEN None
            ELSE Some([ch.concentration[1] EXCEPT !.spell = AsDictInner(@)]),
        !.spell_slots = JsonDict(ch.spell_slots)]

\* Character.from_dict(data)
Character_from_dict(data) ==
    [data EXCEPT
        !.inventory = [i \in DOMAIN data.inventory |-> FromFields(data.inventory[i])],
        !.spells = [i \in DOMAIN data.spells |-> FromFields(data.spells[i])],
        !.spell_slots = [l \in {IntVal(k) : k \in DOMAIN data.spell_slots} |->
                            data.spell_slots[CHOOSE k \in DOMAIN data.spell_slots :
                                                 IntVal(k) = l]]]

\* Combatant.to_dict()
Combatant_to_dict(h, c) ==
    [character |-> Character_to_dict(h[c.character]),
     initiative |-> c.initiative, alive |-> c.alive]

\* CombatEncounter.to_dict()
CombatEncounter_to_dict ==
    [round |-> round, turn_index |-> turn_index,
     combatants |-> [i \in DOMAIN combatants |-> Combatant_to_dict(heap, combatants[i])]]

\* the keys of a dict, in the order a loop over it meets them
RECURSIVE KeysOf(_)
KeysOf(d) ==
    IF DOMAIN d = {} THEN <<>>
    ELSE LET k == CHOOSE x \in DOMAIN d : TRUE
         IN  <<k>> \o KeysOf(Drop(d, {k}))

\* the values the snapshot was taken of, kept next to it
Origin ==
    [heap |-> heap, characters |-> characters, combatants |-> combatants,
     round |-> round, turn_index |-> turn_index, party |-> party,
     started |-> started]

\* Game.save(path)
Game_save ==
    /\ saved' = Some([characters |-> [id \in DOMAIN characters |->
                                         Character_to_dict(heap[characters[id]])],
                      encounter |-> CombatEncounter_to_dict,
                      party |-> party,
                      origin |-> Origin])
    /\ call' = [op |-> "save"]
    /\ ret' = None
    /\ lap' = None
    /\ UNCHANGED <<heap, characters, party, encounter_vars, library_vars, started>>

\* Game.load(path): a new Game, with one new Character per entry of the
\* character map and one new Character per combatant
Game_load ==
    /\ saved # None
    /\ LET data == saved[1]
           ids == KeysOf(data.characters)
           cs == data.encounter.combatants
       IN  /\ heap' = [i \in 1..(Len(ids) + Len(cs)) |->
                          IF i <= Len(ids)
                          THEN Character_from_dict(data.characters[ids[i]])
                          ELSE Character_from_dict(cs[i - Len(ids)].character)]
           /\ characters' = [id \in DOMAIN data.characters |->
                                CHOOSE i \in DOMAIN ids : ids[i] = id]
           /\ combatants' = [i \in DOMAIN cs |->
                                [character |-> Len(ids) + i,
                                 initiative |-> cs[i].initiative,
                                 alive |-> cs[i].alive]]
           /\ round' = data.encounter.round
           /\ turn_index' = data.encounter.turn_index
           /\ party' = data.party
           /\ started' = data.origin.started
    /\ call' = [op |-> "load"]
    /\ ret' = None
    /\ lap' = None
    /\ UNCHANGED <<saved, library_vars>>

\* list.remove(x): the list without the first x
RemoveFirst(list, x) ==
    LET at == CHOOSE i \in DOMAIN list : list[i] = x /\ \A j \in 1..(i - 1) : list[j] # x
    IN  SubSeq(list, 1, at - 1) \o SubSeq(list, at + 1, Len(list))

\* Game.remove_character(char_id)
Game_remove_character(char_id) ==
    /\ characters' = Drop(characters, {char_id})
    /\ party' = IF \E i \in DOMAIN party : party[i] = char_id
                THEN RemoveFirst(party, char_id) ELSE party
    /\ call' = [op |-> "remove_character", char_id |-> char_id]
    /\ ret' = None
    /\ lap' = None
    /\ UNCHANGED <<heap, saved, encounter_vars, library_vars, started>>


----------------------------------------------------------------------------
(* The campaign: two characters, a party list, one encounter, snapshots    *)

MaxParty == 2       \* largest roster the campaign model builds

\* a fighter with an item, a known spell, spell slots and a condition
Veteran(concentration) ==
    [Fighter(1, concentration) EXCEPT
        !.inventory = <<Item("rope", 1, FALSE)>>,
        !.spells = <<Burn>>,
        !.spell_slots = (1 :> [current |-> 1, max |-> 2]),
        !.conditions = ("poisoned" :> 2)]

\* the party list is what a loaded snapshot held; nothing else fills it
InitCampaign ==
    /\ heap = <<Veteran(start_concentration(Character("ann"), Bless, 13, 1).concentration),
                 Archer>>
    /\ characters = ("ann" :> 1 @@ "bob" :> 2)
    /\ combatants = <<>>
    /\ round = 0
    /\ turn_index = 0
    /\ SPELL_LIBRARY = EmptyDict
    /\ SPELL_INDEX = EmptyDict
    /\ party \in {<<>>, <<"ann", "bob", "ann">>}
    /\ saved = None
    /\ started = None
    /\ lap = None
    /\ call = NoCall
    /\ ret = None

CampaignAdd ==
    /\ Len(combatants) < MaxParty
    /\ \E id \in {"ann", "bob"} : Game_add_to_encounter(id)

CampaignStart == CombatEncounter_start("bob" :> 1)

CampaignDamage ==
    CombatEncounter_apply_area_damage(DamageMapOf(heap, combatants, MaxBlow, <<>>), None)

\* the snapshot file is written once
Save == saved = None /\ Game_save

Load == Game_load

RemoveCharacter == \E id \in {"ann", "bob"} : Game_remove_character(id)

NextCampaign ==
    CampaignAdd \/ CampaignStart \/ CampaignDamage \/ Save \/ Load \/ RemoveCharacter

SpecCampaign == InitCampaign /\ [][NextCampaign]_vars

\* C15: in every reachable state of a Campaign, a loaded one included,
\* each combatant whose character id is a key of the character map refers
\* to that character: after damage through the encounter the Campaign's
\* character for that id shows the same current_hp, temp_hp, conditions,
\* slots and concentration.
C15_CombatantIsCampaignCharacter ==
    \A i \in DOMAIN combatants :
        LET c == heap[combatants[i].character]
        IN  c.char_id \in DOMAIN characters =>
                LET ch == heap[characters[c.char_id]]
                IN  /\ ch.current_hp = c.current_hp
                    /\ ch.temp_hp = c.temp_hp
                    /\ ch.conditions = c.conditions
                    /\ ch.spell_slots = c.spell_slots
                    /\ ch.concentration = c.concentration

\* C16: saving a Campaign with at least one character and a started
\* encounter and loading it gives a Campaign with the same character ids,
\* the same value of every character field (integer slot levels), and the
\* same roster order, initiative, alive flags, round and turn_index.
C16_SaveLoadRoundTrip ==
    (/\ call.op = "load"
     /\ DOMAIN saved[1].origin.characters # {}
     /\ saved[1].origin.started # None)
    =>
    LET was == saved[1].origin
    IN  /\ DOMAIN characters = DOMAIN was.characters
        /\ \A id \in DOMAIN characters :
               heap[characters[id]] = was.heap[was.characters[id]]
        /\ Len(combatants) = Len(was.combatants)
        /\ \A i \in DOMAIN combatants :
               /\ heap[combatants[i].character] =
                      was.heap[was.combatants[i].character]
               /\ combatants[i].initiative = was.combatants[i].initiative
               /\ combatants[i].alive = was.combatants[i].alive
        /\ round = was.round
        /\ turn_index = was.turn_index

\* C18: after remove_character(id) the id is no key of the character map
\* and occurs nowhere in the party list, and the encounter is as it was:
\* same roster, the combatants of the removed character included, same
\* round and turn_index.
C18_RemovedEverywhere ==
    [][call'.op = "remove_character" =>
          /\ call'.char_id \notin DOMAIN characters'
          /\ \A i \in DOMAIN party' : party'[i] # call'.char_id
          /\ combatants' = combatants
          /\ heap' = heap
          /\ round' = round
          /\ turn_index' = turn_index]_vars


----------------------------------------------------------------------------
(* Short rests: one character, its hit-dice pool and its Constitution      *)

MaxRests == 3       \* most hit-die rolls handed to one short rest

Resting(current_hp, hit_die_total, con) ==
    [Character("hero") EXCEPT
        !.max_hp = 5, !.current_hp = current_hp,
        !.hit_die_total = hit_die_total, !.abilities[CON] = con]

InitRecover ==
    /\ \E current_hp \in {0, 2, 5}, hit_die_total \in 0..MaxHitDice,
          con \in {6, 10, 15} :
           heap = <<Resting(current_hp, hit_die_total, con)>>
    /\ characters = ("hero" :> 1)
    /\ combatants = <<>>
    /\ round = 0
    /\ turn_index = 0
    /\ SPELL_LIBRARY = EmptyDict
    /\ SPELL_INDEX = EmptyDict
    /\ party = <<>>
    /\ saved = None
    /\ started = None
    /\ lap = None
    /\ call = NoCall
    /\ ret = None

\* recovered_hp_per_roll: not given, empty, shorter than the rolls, negative
Overrides == {None, Some(<<>>), Some(<<0 - 1>>), Some(<<2, 0>>)}

Recover ==
    \E r \in Refs, rolls \in SeqsUpTo({1, 3}, MaxRests), overrides \in Overrides :
        Character_short_rest(r, rolls, overrides)

NextRecover == Recover

SpecRecover == InitRecover /\ [][NextRecover]_vars

\* what the i-th roll of a short rest gives back, as the claim states it
GainClaimed(ch, rolls, overrides, i) ==
    IF overrides # None /\ i <= Len(overrides[1])
    THEN Max(0, overrides[1][i])
    ELSE Max(0, rolls[i] + ability_mod(ch.abilities[CON]))

\* current_hp after the first n rolls were processed in order
RECURSIVE HpClaimed(_, _, _, _)
HpClaimed(ch, rolls, overrides, n) ==
    IF n = 0 THEN ch.current_hp
    ELSE Min(ch.max_hp,
             HpClaimed(ch, rolls, overrides, n - 1)
             + GainClaimed(ch, rolls, overrides, n))

\* C21: short_rest with k rolls on a character with h >= 0 hit dice spends
\* min(k, h) of them, and current_hp is what processing the first min(k, h)
\* rolls in order gives: each adds max(0, override) where an override
\* stands at its position and max(0, roll + CON modifier) otherwise,
\* capped at max_hp; the rolls beyond the pool change nothing.
C21_ShortRestSpendsPool ==
    [][call'.op = "short_rest" =>
          LET ch == heap[call'.self]
              after == heap'[call'.self]
              n == Min(Len(call'.hit_die_rolls), ch.hit_die_total)
          IN  /\ after.hit_die_total = ch.hit_die_total - n
              /\ after.hit_die_total >= 0
              /\ after.current_hp =
                     HpClaimed(ch, call'.hit_die_rolls,
                               call'.recovered_hp_per_roll, n)
              /\ after = [ch EXCEPT !.hit_die_total = after.hit_die_total,
                                    !.current_hp = after.current_hp]]_vars

\* three rolls and one override met a smaller pool, and hit points rose
\* from 0 or 2 to 3 without reaching max_hp
C21_Witness ==
    /\ call.op = "short_rest"
    /\ Len(call.hit_die_rolls) = MaxRests
    /\ call.recovered_hp_per_roll # None
    /\ Len(call.recovered_hp_per_roll[1]) = 1
    /\ heap[1].hit_die_total = 0
    /\ heap[1].current_hp = 3


----------------------------------------------------------------------------
(* Conditions: one character that starts with none                         *)

MaxDuration == 3    \* longest duration a condition is added with

Character_add_condition(r, condition, rounds) ==
    /\ heap' = [heap EXCEPT ![r] = add_condition(@, condition, rounds)]
    /\ ret' = None
    /\ call' = [op |-> "add_condition", self |-> r, condition |-> condition,
                rounds |-> rounds]
    /\ lap' = None
    /\ UNCHANGED <<game_vars, encounter_vars, library_vars, started>>

Character_remove_condition(r, condition) ==
    /\ heap' = [heap EXCEPT ![r] = remove_condition(@, condition)]
    /\ ret' = None
    /\ call' = [op |-> "remove_condition", self |-> r, condition |-> condition]
    /\ lap' = None
    /\ UNCHANGED <<game_vars, encounter_vars, library_vars, started>>

Character_tick_conditions(r) ==
    /\ heap' = [heap EXCEPT ![r] = tick_conditions(@)]
    /\ ret' = None
    /\ call' = [op |-> "tick_conditions", self |-> r]
    /\ lap' = None
    /\ UNCHANGED <<game_vars, encounter_vars, library_vars, started>>

InitConditions ==
    /\ heap = <<Character("hero")>>
    /\ characters = ("hero" :> 1)
    /\ combatants = <<>>
    /\ round = 0
    /\ turn_index = 0
    /\ SPELL_LIBRARY = EmptyDict
    /\ SPELL_INDEX = EmptyDict
    /\ party = <<>>
    /\ saved = None
    /\ started = None
    /\ lap = None
    /\ call = NoCall
    /\ ret = None

\* two recognized names, an unknown one and a recognized one misspelt
ConditionNames == {"poisoned", "prone", "dazed", "Prone"}

\* indefinite, zero and counted durations
Durations == {0 - 1, 0} \cup 1..MaxDuration

AddCondition ==
    \E r \in Refs, condition \in ConditionNames, rounds \in Durations :
        Character_add_condition(r, condition, rounds)

RemoveCondition ==
    \E r \in Refs, condition \in ConditionNames :
        Character_remove_condition(r, condition)

TickConditions == \E r \in Refs : Character_tick_conditions(r)

RestLong ==
    \E r \in Refs, hp \in BOOLEAN, slots \in BOOLEAN : Character_long_rest(r, hp, slots)

NextConditions == AddCondition \/ RemoveCondition \/ TickConditions \/ RestLong

SpecConditions == InitConditions /\ [][NextConditions]_vars

\* the character after n calls of tick_conditions
RECURSIVE Ticks(_, _)
Ticks(ch, n) == IF n = 0 THEN ch ELSE tick_conditions(Ticks(ch, n - 1))

\* C22: tick_conditions takes 1 off every positive counter, removes exactly
\* the conditions whose counter reaches 0 by that, and leaves negative
\* counters as they are; so a condition added for d > 0 rounds is there
\* after d - 1 ticks and gone after d ticks.
C22_TickCountsDown ==
    /\ [][call'.op = "tick_conditions" =>
             LET before == heap[call'.self].conditions
                 after == heap'[call'.self].conditions
             IN  /\ DOMAIN after =
                        {c \in DOMAIN before : ~(before[c] > 0 /\ before[c] - 1 = 0)}
                 /\ \A c \in DOMAIN after :
                        after[c] = IF before[c] > 0 THEN before[c] - 1 ELSE before[c]
                 /\ \A c \in DOMAIN before :
                        before[c] < 0 => c \in DOMAIN after /\ after[c] = before[c]]_vars
    /\ [](\A r \in Refs, c \in ConditionNames \cap CONDITIONS, d \in 1..MaxDuration :
              LET added == add_condition(heap[r], c, d)
              IN  /\ c \in DOMAIN Ticks(added, d - 1).conditions
                  /\ c \notin DOMAIN Ticks(added, d).conditions)

\* a tick counted poisoned down from 2 to 1 beside an indefinite prone
C22_Witness ==
    /\ call.op = "tick_conditions"
    /\ heap[1].conditions = ("poisoned" :> 1 @@ "prone" :> 0 - 1)

\* C25: from a character with no conditions, under add_condition,
\* remove_condition, tick_conditions and long_rest every key of the
\* condition map is a recognized condition, and add_condition with a name
\* outside the recognized set leaves the map as it was.
C25_OnlyRecognizedConditions ==
    /\ [](\A r \in Refs : DOMAIN heap[r].conditions \subseteq CONDITIONS)
    /\ [][(call'.op = "add_condition" /\ call'.condition \notin CONDITIONS) =>
             heap'[call'.self].conditions = heap[call'.self].conditions]_vars

\* an unrecognized name was offered to a character that holds a condition
C25_Witness ==
    /\ call.op = "add_condition"
    /\ call.condition = "dazed"
    /\ heap[1].conditions # EmptyDict


----------------------------------------------------------------------------
(* Spell slots: one character with slots of two levels                     *)

MaxSlots == 3       \* most slots of one level

Character_use_spell_slot(r, level) ==
    /\ LET res == use_spell_slot(heap[r], level)
       IN  /\ heap' = [heap EXCEPT ![r] = res.self]
           /\ ret' = res.ret
    /\ call' = [op |-> "use_spell_slot", self |-> r, level |-> level]
    /\ lap' = None
    /\ UNCHANGED <<game_vars, encounter_vars, library_vars, started>>

\* slots of levels 1 and 2, none of level 3
Sorcerer(slots1, slots2, temp_hp) ==
    [Character("hero") EXCEPT
        !.temp_hp = temp_hp,
        !.spell_slots = (1 :> [current |-> slots1, max |-> MaxSlots]
                         @@ 2 :> [current |-> slots2, max |-> 2])]

InitSlots ==
    /\ \E slots1 \in 0..MaxSlots, slots2 \in 0..2, temp_hp \in 0..MaxTemp :
           heap = <<Sorcerer(slots1, slots2, temp_hp)>>
    /\ characters = ("hero" :> 1)
    /\ combatants = <<>>
    /\ round = 0
    /\ turn_index = 0
    /\ SPELL_LIBRARY = EmptyDict
    /\ SPELL_INDEX = EmptyDict
    /\ party = <<>>
    /\ saved = None
    /\ started = None
    /\ lap = None
    /\ call = NoCall
    /\ ret = None

UseSpellSlot == \E r \in Refs, level \in 0..3 : Character_use_spell_slot(r, level)

RestoreSlots ==
    \E r \in Refs, hp \in BOOLEAN, slots \in BOOLEAN : Character_long_rest(r, hp, slots)

NextSlots == UseSpellSlot \/ RestoreSlots

SpecSlots == InitSlots /\ [][NextSlots]_vars

\* C23: use_spell_slot(level) returns false and changes nothing when there
\* is no slot entry of that level or its current count is 0; otherwise it
\* returns true and takes exactly 1 off that level's current count, its max
\* and every other level staying as they are; no current count is ever
\* negative.
C23_SlotUse ==
    /\ [][call'.op = "use_spell_slot" =>
             LET ch == heap[call'.self]
                 after == heap'[call'.self]
                 level == call'.level
             IN  IF level \notin DOMAIN ch.spell_slots
                    \/ ch.spell_slots[level].current = 0
                 THEN ret' = FALSE /\ after = ch
                 ELSE /\ ret' = TRUE
                      /\ after.spell_slots[level].current =
                             ch.spell_slots[level].current - 1
                      /\ after.spell_slots[level].max = ch.spell_slots[level].max
                      /\ DOMAIN after.spell_slots = DOMAIN ch.spell_slots
                      /\ \A l \in DOMAIN ch.spell_slots \ {level} :
                             after.spell_slots[l] = ch.spell_slots[l]
                      /\ after = [ch EXCEPT !.spell_slots = after.spell_slots]]_vars
    /\ [](\A r \in Refs : \A l \in DOMAIN heap[r].spell_slots :
              heap[r].spell_slots[l].current >= 0)

\* a level-2 slot was used beside untouched level-1 slots
C23_Witness ==
    /\ call.op = "use_spell_slot"
    /\ call.level = 2
    /\ ret = TRUE
    /\ heap[1].spell_slots[2].current = 1
    /\ heap[1].spell_slots[1].current = MaxSlots

----------------------------------------------------------------------------
(* Levels: one character, its experience and its level                     *)

\* experience just below, at and above thresholds of the table
Experience == {0, 299, 300, 900, 6500, 354999, 355000, 400000}

Student(level, xp, hit_die) ==
    [Character("hero") EXCEPT !.level = level, !.xp = xp, !.hit_die = hit_die]

InitLevels ==
    /\ \E level \in {1, 2, 5, 19, 20}, xp \in Experience, hit_die \in {6, 7, 8} :
           heap = <<Student(level, xp, hit_die)>>
    /\ characters = ("hero" :> 1)
    /\ combatants = <<>>
    /\ round = 0
    /\ turn_index = 0
    /\ SPELL_LIBRARY = EmptyDict
    /\ SPELL_INDEX = EmptyDict
    /\ party = <<>>
    /\ saved = None
    /\ started = None
    /\ lap = None
    /\ call = NoCall
    /\ ret = None

LevelUp == \E r \in Refs : Character_try_level_up(r)

NextLevels == LevelUp

SpecLevels == InitLevels /\ [][NextLevels]_vars

\* the highest level in l..20 whose threshold x meets; l where there is none
LevelClaimed(l, x) ==
    LET met == {L \in l..20 : XP_LEVELS[L] <= x}
    IN  IF met = {} THEN l ELSE CHOOSE L \in met : \A M \in met : M <= L

\* C24: try_level_up at level l in 1..20 with experience x sets the level
\* to the highest L in l..20 whose threshold is <= x; when L > l it adds
\* (ceil(hit_die / 2) + 1) * (L - l) to max_hp and returns true, when L = l
\* it returns false and changes nothing; the level never passes 20 and a
\* second call with the same x returns false.
C24_LevelUp ==
    /\ [][call'.op = "try_level_up" =>
             LET ch == heap[call'.self]
                 after == heap'[call'.self]
                 L == LevelClaimed(ch.level, ch.xp)
                 per == (IF ch.hit_die % 2 = 0 THEN ch.hit_die \div 2
                         ELSE (ch.hit_die + 1) \div 2) + 1
             IN  /\ after.level = L
                 /\ L <= 20
                 /\ IF L > ch.level
                    THEN /\ ret' = TRUE
                         /\ after = [ch EXCEPT !.level = L,
                                               !.max_hp = @ + per * (L - ch.level)]
                    ELSE ret' = FALSE /\ after = ch
                 /\ call.op = "try_level_up" => ret' = FALSE]_vars
    /\ [](\A r \in Refs : heap[r].level <= 20)

\* a character of level 1 with hit die 7 rose four levels at once
C24_Witness ==
    /\ call.op = "try_level_up"
    /\ ret = TRUE
    /\ heap[1].level = 5
    /\ heap[1].xp = 6500
    /\ heap[1].hit_die = 7
    /\ heap[1].max_hp = 8 + 5 * 4

----------------------------------------------------------------------------
(* Ability modifiers: one character and the scores of one ability          *)

MaxScore == 30      \* largest ability score

Character_ability_mod_of(r, ability) ==
    /\ ret' = Character_ability_mod(heap[r], ability)
    /\ call' = [op |-> "ability_mod", self |-> r, ability |-> ability]
    /\ lap' = None
    /\ UNCHANGED <<heap, game_vars, encounter_vars, library_vars, started>>

InitScores ==
    /\ \E s \in 1..MaxScore : heap = <<[Character("hero") EXCEPT !.abilities[STR] = s]>>
    /\ characters = ("hero" :> 1)
    /\ combatants = <<>>
    /\ round = 0
    /\ turn_index = 0
    /\ SPELL_LIBRARY = EmptyDict
    /\ SPELL_INDEX = EmptyDict
    /\ party = <<>>
    /\ saved = None
    /\ started = None
    /\ lap = None
    /\ call = NoCall
    /\ ret = None

\* the ability asked for: in lower case, in upper case, and one not held
AbilityMod ==
    \E r \in Refs, ability \in {<<"s","t","r">>, STR, DEX, <<"L","U","C","K">>} :
        Character_ability_mod_of(r, ability)

NextScores == AbilityMod

SpecScores == InitScores /\ [][NextScores]_vars

\* C26: for every score s in 1..30 the modifier is floor((s - 10) / 2),
\* rounded toward negative infinity: 3 gives -4 and 9 gives -1.
C26_ModifierIsFloor ==
    (call.op = "ability_mod" /\ Upper(call.ability) = STR) =>
        LET s == heap[call.self].abilities[STR]
        IN  /\ 2 * ret <= s - 10
            /\ s - 10 < 2 * ret + 2
            /\ s = 3 => ret = 0 - 4
            /\ s = 9 => ret = 0 - 1
            /\ s = 10 => ret = 0
            /\ s = 20 => ret = 5

\* the modifier of an odd score below 10 was asked for
C26_Witness ==
    /\ call.op = "ability_mod"
    /\ call.ability = <<"s","t","r">>
    /\ heap[1].abilities[STR] = 3
    /\ ret = 0 - 4


----------------------------------------------------------------------------
(* A roster of three: removal while the encounter runs                     *)

Cat == [Character("cat") EXCEPT !.max_hp = 1, !.current_hp = 1]

\* the three were added to the encounter in this order; not started yet
InitRoster ==
    /\ heap = <<Ann(EmptyDict), Bob(EmptyDict), Cat>>
    /\ characters = ("ann" :> 1 @@ "bob" :> 2 @@ "cat" :> 3)
    /\ combatants = <<Combatant(1), Combatant(2), Combatant(3)>>
    /\ round = 0
    /\ turn_index = 0
    /\ SPELL_LIBRARY = EmptyDict
    /\ SPELL_INDEX = EmptyDict
    /\ party = <<>>
    /\ saved = None
    /\ started = None
    /\ lap = None
    /\ call = NoCall
    /\ ret = None

RosterStart ==
    \E initiatives \in {EmptyDict, "cat" :> 1} : CombatEncounter_start(initiatives)

RosterRemove ==
    \E id \in {"ann", "bob", "cat"} : CombatEncounter_remove_combatant(id)

RosterNextTurn == CombatEncounter_next_turn

RosterPreviousTurn == CombatEncounter_previous_turn

NextRoster == RosterStart \/ RosterRemove \/ RosterNextTurn \/ RosterPreviousTurn

SpecRoster == InitRoster /\ [][NextRoster]_vars

\* C27: in a started encounter with a valid cursor, remove_combatant(id)
\* for an id that is not the current combatant's leaves the current
\* combatant the same: current_combatant() returns the same combatant
\* before and after the removal.
C27_RemovalKeepsCurrent ==
    [][(/\ call'.op = "remove_combatant"
        /\ started # None
        /\ 0 <= turn_index
        /\ turn_index < Len(combatants)
        /\ call'.char_id # IdOf(heap, combatants[turn_index + 1]))
       => combatants'[CursorRepaired(combatants', turn_index') + 1]
              = combatants[turn_index + 1]]_vars

\* C30: in every state of a started encounter reached by add_combatant,
\* remove_combatant, next_turn and previous_turn, every combatant has an
\* initiative and the roster is in non-increasing order of
\* (initiative, DEX modifier): the order start set up is kept.
C30_TurnOrderKept ==
    started # None =>
        /\ \A i \in DOMAIN combatants : combatants[i].initiative # None
        /\ \A i \in 1..(Len(combatants) - 1) :
               (combatants[i].initiative # None /\ combatants[i + 1].initiative # None) =>
                   LET a == combatants[i].initiative[1]
                       b == combatants[i + 1].initiative[1]
                       da == Character_ability_mod(heap[combatants[i].character], DEX)
                       db == Character_ability_mod(heap[combatants[i + 1].character], DEX)
                   IN  a > b \/ (a = b /\ da >= db)

\* C29: a cast_spell that applies 0 damage to a target (no damage
\* expression, or damage that comes out as 0) does not end that target's
\* concentration, whatever the target's saving-throw total.
C29_NoDamageKeepsConcentration ==
    [][CastSucceeded =>
          \A tid \in DOMAIN ret'.targets :
              ("damage_applied" \in DOMAIN ret'.targets[tid]
               /\ ret'.targets[tid].damage_applied = 0) =>
                  LET t == combatants[Find(heap, combatants, tid)].character
                  IN  heap[t].concentration # None =>
                          heap'[t].concentration = heap[t].concentration]_vars

\* C28: from an encounter whose combatants are all alive with
\* current_hp > 0, under perform_attack and apply_area_damage, on every
\* roster add_to_encounter can build, every combatant whose character has
\* current_hp <= 0 has alive = false.
C28_DownMeansNotAlive ==
    \A i \in DOMAIN combatants :
        heap[combatants[i].character].current_hp <= 0 => ~combatants[i].alive

====
